---- MODULE Spec2Model ----
(***************************************************************************)
(* Model of the M98 macro subsystem of mfsender:                           *)
(*   - migration.js        one-time migration of the legacy macros.json    *)
(*   - m98-storage.js      per-record macro files (second half of the      *)
(*                         file src/app/electron/features/macro/           *)
(*                         migration.js, lines 191-416)                    *)
(*   - macro routes        handleExecute (src/unnamed/part_000)            *)
(*                                                                         *)
(* Strings are sequences of one-character strings, so that String(),       *)
(* Number.parseInt(), startsWith() and slice() are computed, not assumed.  *)
(* Timestamps are integers (0 = absent); the clock is the variable now.    *)
(***************************************************************************)
EXTENDS Integers, Sequences, FiniteSets, TLC

(***************************************************************************)
(* Bounds of the model.                                                    *)
(*                                                                         *)
(* RangeSlots scales the identifier range: the program has 999 slots       *)
(* (9001..9999); the model keeps ID_MIN and gives the range RangeSlots     *)
(* slots, so that a full range and a legacy file that exceeds it are       *)
(* reachable.  Every formula is stated with ID_MIN and ID_MAX.             *)
(***************************************************************************)
RangeSlots == 2

\* the number of Storage/Migration calls a behaviour makes
MaxOps == 3

\* the longest command list the pipeline returns
MaxCmds == 2

\* the longest stored commands text, in characters
MaxText == 4

ID_MIN == 9001
ID_MAX == ID_MIN + RangeSlots - 1
IdRange == ID_MIN..ID_MAX

(***************************************************************************)
(* JavaScript values and strings                                           *)
(***************************************************************************)
\* undefined and null: reserved tokens (no string holds a many-letter element)
Undefined == <<"undefined">>
Null == <<"null">>

IsString(v) == v # Undefined /\ v # Null

\* JavaScript truthiness of a string-or-undefined-or-null value (x || dflt)
IsFalsy(v) == v = Undefined \/ v = Null \/ v = <<>>

OrElse(v, dflt) == IF IsFalsy(v) THEN dflt ELSE v

\* truthiness of a timestamp (0 models a missing one)
OrElseTime(t, dflt) == IF t = 0 THEN dflt ELSE t

DigitChars == <<"0", "1", "2", "3", "4", "5", "6", "7", "8", "9">>

IsDigit(c) == \E i \in 1..10 : DigitChars[i] = c

DigitVal(c) == (CHOOSE i \in 1..10 : DigitChars[i] = c) - 1

IsSpace(c) == c \in {" ", "\t", "\n", "\r"}

\* String(n) for an integer n
RECURSIVE NatToStr(_)
NatToStr(n) ==
  IF n < 10 THEN <<DigitChars[n + 1]>>
  ELSE NatToStr(n \div 10) \o <<DigitChars[(n % 10) + 1]>>

NumToStr(n) == IF n < 0 THEN <<"-">> \o NatToStr(0 - n) ELSE NatToStr(n)

\* String(v) for a string, undefined or null
JsString(v) ==
  IF v = Undefined THEN <<"u", "n", "d", "e", "f", "i", "n", "e", "d">>
  ELSE IF v = Null THEN <<"n", "u", "l", "l">>
  ELSE v

RECURSIVE SkipSpace(_)
SkipSpace(s) ==
  IF s # <<>> /\ IsSpace(Head(s)) THEN SkipSpace(Tail(s)) ELSE s

RECURSIVE DigitsValue(_, _)
DigitsValue(s, acc) ==
  IF s # <<>> /\ IsDigit(Head(s))
  THEN DigitsValue(Tail(s), acc * 10 + DigitVal(Head(s)))
  ELSE acc

NaN == [nan |-> TRUE, v |-> 0]

\* Number.parseInt(s, 10): leading white space, a sign, then the digits up
\* to the first other character; NaN when there is no digit
ParseInt(s) ==
  LET t == SkipSpace(s)
      neg == t # <<>> /\ Head(t) = "-"
      u == IF t # <<>> /\ Head(t) \in {"-", "+"} THEN Tail(t) ELSE t
  IN IF u = <<>> \/ ~IsDigit(Head(u)) THEN NaN
     ELSE [nan |-> FALSE, v |-> (IF neg THEN 0 - DigitsValue(u, 0) ELSE DigitsValue(u, 0))]

StartsWith(s, p) == Len(s) >= Len(p) /\ SubSeq(s, 1, Len(p)) = p

Slice(s, n) == SubSeq(s, n + 1, Len(s))

MacroPrefix == <<"M", "a", "c", "r", "o", ":">>

\* `Macro ${id}`
DefaultName(id) == <<"M", "a", "c", "r", "o", " ">> \o id

(***************************************************************************)
(* m98-storage.js: identifiers                                             *)
(***************************************************************************)
isValidMacroId(id) ==
  LET numeric == ParseInt(JsString(id))
  IN ~numeric.nan /\ numeric.v >= ID_MIN /\ numeric.v <= ID_MAX

\* null is the result for an identifier that does not parse
normalizeMacroId(id) ==
  LET numeric == ParseInt(JsString(id))
  IN IF numeric.nan THEN Null ELSE NumToStr(numeric.v)

(***************************************************************************)
(* The file system under the user-data directory.                          *)
(*   files    macros/<name>.macro, keyed by <name>; a file is its text     *)
(*            kind and, for JSON text, the object it holds                 *)
(*   marker   macros/.migrated exists                                      *)
(*   legacy   macros.json                                                  *)
(*   backup   macros.json.backup exists                                    *)
(*   settings settings.json                                                *)
(*   io       the paths written by the operation in progress               *)
(***************************************************************************)
NoObj == [id |-> Undefined, name |-> Undefined, description |-> Undefined,
          commands |-> Undefined, createdAt |-> 0, updatedAt |-> 0]

JsonFile(obj) == [text |-> "json", obj |-> obj]

GarbageFile == [text |-> "garbage", obj |-> NoObj]

EmptyMap == [k \in {} |-> Null]

(***************************************************************************)
(* migration.js                                                            *)
(* ensureMacrosDir (lines 36-42) creates the directory and swallows its    *)
(* error; the directory is implicit in files, so it is no step here.       *)
(***************************************************************************)
\* names of the entries of macros/ that end in .macro
listMacroFiles(d) == DOMAIN d.files

\* a migration that forgets to leave the marker
writeMigratedMarkerOmitted(d) == d

writeMigratedMarker(d) ==
  [d EXCEPT !.marker = TRUE, !.io = @ \cup {"marker"}]

\* null (ok = FALSE) when the file does not read or parse; [] for JSON that
\* is no array
readLegacyMacros(d) ==
  IF d.legacy.kind = "array" THEN [ok |-> TRUE, recs |-> d.legacy.recs]
  ELSE IF d.legacy.kind = "nonarray" THEN [ok |-> TRUE, recs |-> <<>>]
  ELSE [ok |-> FALSE, recs |-> <<>>]

\* copyFileSync throws, and the throw is swallowed, when macros.json is absent
backupLegacyMacros(d) ==
  IF ~d.backup /\ d.legacy.kind # "absent"
  THEN [d EXCEPT !.backup = TRUE, !.io = @ \cup {"backup"}]
  ELSE d

writeMacroFile(d, macro) ==
  [d EXCEPT !.files = (macro.id :> JsonFile(macro)) @@ @,
            !.io = @ \cup {"macro"}]

\* identifiers counted from 1 instead of 0
NewMacroIdOneBased(index) == NumToStr(ID_MIN + index + 1)

\* String(ID_MIN + index), index counting the legacy records from 0
NewMacroId(index) == NumToStr(ID_MIN + index)

\* the Map after idMap.set for the first n legacy records
RECURSIVE BuildIdMap(_, _)
BuildIdMap(recs, n) ==
  IF n = 0 THEN EmptyMap
  ELSE (JsString(recs[n].id) :> NewMacroId(n - 1)) @@ BuildIdMap(recs, n - 1)

\* a rewrite that looks the whole action string up in the map
updateKeyboardBindingsUnsliced(d, idMap) ==
  IF d.settings.kind # "json" THEN d
  ELSE IF ~d.settings.hasBindings THEN d
  ELSE
    LET b == d.settings.bindings
        Hit(key) == /\ IsString(b[key])
                    /\ StartsWith(b[key], MacroPrefix)
                    /\ b[key] \in DOMAIN idMap
        updatedBindings ==
          [key \in DOMAIN b |->
             IF Hit(key) THEN MacroPrefix \o idMap[b[key]] ELSE b[key]]
        changed == \E key \in DOMAIN b : Hit(key)
    IN IF ~changed THEN d
       ELSE [d EXCEPT !.settings.bindings = updatedBindings,
                      !.io = @ \cup {"settings"}]

updateKeyboardBindings(d, idMap) ==
  IF d.settings.kind # "json" THEN d
  ELSE IF ~d.settings.hasBindings THEN d
  ELSE
    LET b == d.settings.bindings
        Hit(key) == /\ IsString(b[key])
                    /\ StartsWith(b[key], MacroPrefix)
                    /\ Slice(b[key], Len(MacroPrefix)) \in DOMAIN idMap
        updatedBindings ==
          [key \in DOMAIN b |->
             IF Hit(key) THEN MacroPrefix \o idMap[Slice(b[key], Len(MacroPrefix))]
             ELSE b[key]]
        changed == \E key \in DOMAIN b : Hit(key)
    IN IF ~changed THEN d
       ELSE [d EXCEPT !.settings.bindings = updatedBindings,
                      !.io = @ \cup {"settings"}]

\* the macro built from the legacy record at (0-based) index
LegacyToMacro(legacy, index, t) ==
  LET newId == NewMacroId(index)
  IN [id |-> newId,
      name |-> OrElse(legacy.name, DefaultName(newId)),
      description |-> OrElse(legacy.description, <<>>),
      commands |-> OrElse(legacy.commands, <<>>),
      createdAt |-> OrElseTime(legacy.createdAt, t),
      updatedAt |-> OrElseTime(legacy.updatedAt, t)]

\* legacyMacros.forEach: the disk after the first n records were written
RECURSIVE WriteLegacyMacros(_, _, _, _)
WriteLegacyMacros(d, recs, n, t) ==
  IF n = 0 THEN d
  ELSE writeMacroFile(WriteLegacyMacros(d, recs, n - 1, t),
                      LegacyToMacro(recs[n], n - 1, t))

MigResult(migrated, reason, count) ==
  [migrated |-> migrated, reason |-> reason, count |-> count]

\* a range test that compares the count with the last identifier
RangeExceededById(n) == n > ID_MAX

\* the range test of line 158
RangeExceeded(n) == n > (ID_MAX - ID_MIN + 1)

\* a migration that never looks for the marker
MarkerExistsUnchecked(d) == FALSE

\* fs.existsSync(MIGRATED_MARKER)
MarkerExists(d) == d.marker

\* a migration that does not look for record files before it transforms
migrateIgnoringExisting(d, t) ==
  IF MarkerExists(d) THEN [disk |-> d, ret |-> MigResult(FALSE, "marker", 0)]
  ELSE IF d.legacy.kind = "absent" THEN
    [disk |-> d, ret |-> MigResult(FALSE, "no-legacy", 0)]
  ELSE IF ~readLegacyMacros(d).ok THEN
    [disk |-> d, ret |-> MigResult(FALSE, "read-failed", 0)]
  ELSE IF RangeExceeded(Len(readLegacyMacros(d).recs)) THEN
    [disk |-> backupLegacyMacros(d), ret |-> MigResult(FALSE, "range-exceeded", 0)]
  ELSE
    [disk |-> writeMigratedMarker(
                updateKeyboardBindings(
                  WriteLegacyMacros(backupLegacyMacros(d), readLegacyMacros(d).recs,
                                    Len(readLegacyMacros(d).recs), t),
                  BuildIdMap(readLegacyMacros(d).recs, Len(readLegacyMacros(d).recs)))),
     ret |-> MigResult(TRUE, "", Len(readLegacyMacros(d).recs))]

migrateLegacyMacrosIfNeeded(d, t) ==
  IF MarkerExists(d) THEN [disk |-> d, ret |-> MigResult(FALSE, "marker", 0)]
  ELSE IF listMacroFiles(d) # {} THEN
    [disk |-> writeMigratedMarker(
                IF d.legacy.kind # "absent" /\ ~d.backup
                THEN backupLegacyMacros(d) ELSE d),
     ret |-> MigResult(FALSE, "existing", 0)]
  ELSE IF d.legacy.kind = "absent" THEN
    [disk |-> d, ret |-> MigResult(FALSE, "no-legacy", 0)]
  ELSE
    LET legacyMacros == readLegacyMacros(d)
        d1 == backupLegacyMacros(d)
        n == Len(legacyMacros.recs)
    IN IF ~legacyMacros.ok THEN
         [disk |-> d, ret |-> MigResult(FALSE, "read-failed", 0)]
       ELSE IF RangeExceeded(n) THEN
         [disk |-> d1, ret |-> MigResult(FALSE, "range-exceeded", 0)]
       ELSE
         [disk |-> writeMigratedMarker(
                     updateKeyboardBindings(
                       WriteLegacyMacros(d1, legacyMacros.recs, n, t),
                       BuildIdMap(legacyMacros.recs, n))),
          ret |-> MigResult(TRUE, "", n)]

(***************************************************************************)
(* m98-storage.js (lines 191-416 of the same source file)                  *)
(***************************************************************************)
\* createdAt/updatedAt are taken when the module loads, at time 1
DEFAULT_MACRO ==
  [id |-> <<"9", "0", "0", "1">>,
   name |-> <<"M", "a", "c", "r", "o", " ", "S", "a", "m", "p", "l", "e">>,
   description |-> <<"F", "i", "n", "d", "s">>,
   commands |-> <<"G", "9", "1", "\n", "G", "9", "1">>,
   createdAt |-> 1,
   updatedAt |-> 1]

NoMacro == [ok |-> FALSE, macro |-> NoObj]

\* null (ok = FALSE) for text that is empty or no JSON, and for an object
\* whose id is missing or out of range
parseMacroFile(d, name) ==
  LET file == d.files[name]
  IN IF file.text # "json" THEN NoMacro
     ELSE IF IsFalsy(file.obj.id) \/ ~isValidMacroId(file.obj.id) THEN NoMacro
     ELSE [ok |-> TRUE, macro |-> file.obj]

storageWriteMacroFile(d, macro) ==
  [d EXCEPT !.files = (macro.id :> JsonFile(macro)) @@ @,
            !.io = @ \cup {"macro"}]

\* a seeding that does not look at the legacy file and the marker
ensureDefaultUnguarded(d) ==
  IF listMacroFiles(d) # {} THEN d
  ELSE storageWriteMacroFile(d, DEFAULT_MACRO)

ensureDefaultMacroIfEmpty(d) ==
  IF listMacroFiles(d) # {} THEN d
  ELSE IF d.legacy.kind # "absent" /\ ~MarkerExists(d) THEN d
  ELSE storageWriteMacroFile(d, DEFAULT_MACRO)

\* macros.sort((a, b) => parseInt(a.id) - parseInt(b.id)): a stable sort
RECURSIVE InsertMacro(_, _)
InsertMacro(sorted, m) ==
  IF sorted = <<>> THEN <<m>>
  ELSE IF ParseInt(JsString(m.id)).v - ParseInt(JsString(sorted[Len(sorted)].id)).v >= 0
       THEN Append(sorted, m)
       ELSE Append(InsertMacro(SubSeq(sorted, 1, Len(sorted) - 1), m), sorted[Len(sorted)])

\* a readMacros that returns the entries in directory order
SortMacrosOmitted(list) == list

RECURSIVE SortMacros(_)
SortMacros(list) ==
  IF list = <<>> THEN <<>>
  ELSE InsertMacro(SortMacros(SubSeq(list, 1, Len(list) - 1)), list[Len(list)])

\* the loop of readMacros: the entries that parse, in directory order
RECURSIVE CollectMacros(_, _)
CollectMacros(d, entries) ==
  IF entries = <<>> THEN <<>>
  ELSE LET rest == CollectMacros(d, SubSeq(entries, 1, Len(entries) - 1))
           macro == parseMacroFile(d, entries[Len(entries)])
       IN IF macro.ok THEN Append(rest, macro.macro) ELSE rest

\* readdirSync returns the entries in an order the platform chooses
DirOrders(d) ==
  LET names == listMacroFiles(d)
      n == Cardinality(names)
  IN {o \in [1..n -> names] : \A i, j \in 1..n : o[i] = o[j] => i = j}

\* the disk when readMacros lists the directory
ReadMacrosDisk(d, t) ==
  ensureDefaultMacroIfEmpty(migrateLegacyMacrosIfNeeded(d, t).disk)

\* entries: the directory listing, one of DirOrders(ReadMacrosDisk(d, t))
readMacros(d, entries, t) ==
  LET d2 == ReadMacrosDisk(d, t)
  IN [disk |-> d2,
      macros |-> SortMacros(CollectMacros(d2, entries)),
      mig |-> migrateLegacyMacrosIfNeeded(d, t).ret]

getMacro(d, id) ==
  LET normalized == normalizeMacroId(id)
  IN IF IsFalsy(normalized) \/ ~isValidMacroId(normalized) THEN NoMacro
     ELSE IF normalized \notin DOMAIN d.files THEN NoMacro
     ELSE parseMacroFile(d, normalized)

\* an allocator that takes the number of records for the next free slot
getNextMacroIdByCount(macros) ==
  IF Len(macros) >= ID_MAX - ID_MIN + 1 THEN [ok |-> FALSE, id |-> Null]
  ELSE [ok |-> TRUE, id |-> NumToStr(ID_MIN + Len(macros))]

\* ok = FALSE: 'No available macro IDs in range' is thrown
getNextMacroId(macros) ==
  LET used == {ParseInt(JsString(macros[i].id)).v : i \in 1..Len(macros)}
      free == {id \in ID_MIN..ID_MAX : id \notin used}
  IN IF free = {} THEN [ok |-> FALSE, id |-> Null]
     ELSE [ok |-> TRUE,
           id |-> NumToStr(CHOOSE id \in free : \A other \in free : id <= other)]

createMacro(d, entries, macroData, t) ==
  LET read == readMacros(d, entries, t)
      next == getNextMacroId(read.macros)
      newMacro == [id |-> next.id,
                   name |-> OrElse(macroData.name, DefaultName(next.id)),
                   description |-> OrElse(macroData.description, <<>>),
                   commands |-> OrElse(macroData.commands, <<>>),
                   createdAt |-> t,
                   updatedAt |-> t]
  IN IF ~next.ok
     THEN [disk |-> read.disk, status |-> "capacity", macro |-> NoObj, mig |-> read.mig]
     ELSE [disk |-> storageWriteMacroFile(read.disk, newMacro),
           status |-> "ok", macro |-> newMacro, mig |-> read.mig]

\* a merge that spreads the updates over id and createdAt as well
updateMacroUpdatesLast(d, id, updates, t) ==
  LET existing == getMacro(d, id)
      updated ==
        [k \in DOMAIN existing.macro |->
           IF k \in DOMAIN updates THEN updates[k]
           ELSE IF k = "updatedAt" THEN t
           ELSE existing.macro[k]]
  IN IF ~existing.ok THEN [disk |-> d, status |-> "not-found", macro |-> NoObj]
     ELSE [disk |-> storageWriteMacroFile(d, updated), status |-> "ok", macro |-> updated]

\* lines 363-379: { ...existing, ...updates, id, createdAt, updatedAt: now }
\* updates: a function from the supplied property names to their values
updateMacro(d, id, updates, t) ==
  LET existing == getMacro(d, id)
      updated ==
        [k \in DOMAIN existing.macro |->
           IF k = "id" THEN existing.macro.id
           ELSE IF k = "createdAt" THEN existing.macro.createdAt
           ELSE IF k = "updatedAt" THEN t
           ELSE IF k \in DOMAIN updates THEN updates[k]
           ELSE existing.macro[k]]
  IN IF ~existing.ok THEN [disk |-> d, status |-> "not-found", macro |-> NoObj]
     ELSE [disk |-> storageWriteMacroFile(d, updated), status |-> "ok", macro |-> updated]

\* core/settings-manager.js (imported at line 211), after the specification's
\* settings store: readSettings returns the object settings.json holds,
\* saveSettings writes it
readSettings(d) ==
  IF d.settings.kind = "json" THEN d.settings
  ELSE [kind |-> "json", hasBindings |-> FALSE, bindings |-> EmptyMap]

saveSettings(d, settings) ==
  [d EXCEPT !.settings = settings, !.io = @ \cup {"settings"}]

\* lines 394-411: the binding is looked up by the key Macro:<id>
RemoveKeyboardBinding(d, id) ==
  LET settings == readSettings(d)
      actionId == MacroPrefix \o id
  IN IF settings.hasBindings /\ actionId \in DOMAIN settings.bindings
     THEN saveSettings(d, [settings EXCEPT !.bindings =
                             [k \in (DOMAIN settings.bindings) \ {actionId} |->
                                settings.bindings[k]]])
     ELSE d

deleteMacro(d, id) ==
  LET existing == getMacro(d, id)
  IN IF ~existing.ok THEN [disk |-> d, status |-> "not-found", id |-> Null]
     ELSE IF existing.macro.id \notin DOMAIN d.files
     THEN [disk |-> d, status |-> "unlink-failed", id |-> Null]
     ELSE [disk |-> RemoveKeyboardBinding(
                      [d EXCEPT !.files = [k \in (DOMAIN d.files) \ {existing.macro.id} |->
                                             d.files[k]],
                                !.io = @ \cup {"unlink"}],
                      existing.macro.id),
           status |-> "ok", id |-> existing.macro.id]

(***************************************************************************)
(* State                                                                   *)
(*   fs           the user-data directory (see above)                      *)
(*   now          the clock read by new Date()                             *)
(*   op, ret      the last Storage/Migration call and what it returned     *)
(*   pre          the user-data directory when that call started           *)
(*   mig          what the migration run by that call returned             *)
(*   migrateRun   the results of the last (at most two) migrateIfNeeded    *)
(*                calls made in a row                                      *)
(*   migratedCount how many migration runs returned migrated:true so far   *)
(*   ops          how many calls were made so far                          *)
(*   connected    cncController.isConnected                                *)
(*   exec         the execute requests: where each handleExecute stands    *)
(*   controllerLog the sendCommand calls the controller received, in order *)
(***************************************************************************)
VARIABLES fs, now, op, ret, pre, mig, migrateRun, migratedCount, ops,
          connected, exec, controllerLog

storeVars == <<fs, now, op, ret, pre, mig, migrateRun, migratedCount, ops>>

execVars == <<connected, exec, controllerLog>>

vars == <<fs, now, op, ret, pre, mig, migrateRun, migratedCount, ops,
          connected, exec, controllerLog>>

\* the execute requests of a behaviour
Requests == {"r1", "r2"}

IdleRequest ==
  [pc |-> "idle", rawId |-> Null, macroId |-> Null, continued |-> FALSE,
   commands |-> <<>>, message |-> Undefined, resolved |-> 0, responses |-> <<>>,
   connectedAtStart |-> FALSE, storageRead |-> FALSE, processCalled |-> FALSE]

NoMig == MigResult(FALSE, "none", 0)

IdStr(i) == NumToStr(i)

\* a record file as an earlier session of the program left it
InitMacro(i) ==
  [id |-> IdStr(i), name |-> <<"I">>, description |-> <<>>,
   commands |-> <<"G", "0">>, createdAt |-> 1, updatedAt |-> 1]

NoFiles == [name \in {} |-> GarbageFile]

ValidFiles(S) == [name \in {IdStr(i) : i \in S} |-> JsonFile(InitMacro(ParseInt(name).v))]

\* The legacy records an old installation may hold: distinct ids (the old
\* bindings name a macro by its id), one of them inside the new range, names
\* and descriptions present or missing.
MaxLegacy == RangeSlots + 1

LegacyRecord(k) ==
  [id |-> IF k = 1 THEN <<"A">> ELSE IF k = 2 THEN IdStr(ID_MIN + 1) ELSE <<"L">> \o NumToStr(k),
   name |-> IF k % 2 = 1 THEN <<"N">> \o NumToStr(k) ELSE <<>>,
   description |-> IF k = 1 THEN <<"D">> ELSE Undefined,
   commands |-> IF k = 3 THEN <<>> ELSE <<"G">> \o NumToStr(k),
   createdAt |-> IF k = 1 THEN 1 ELSE 0,
   updatedAt |-> IF k = 1 THEN 1 ELSE 0]

LegacyArray(n) == [i \in 1..n |-> LegacyRecord(i)]

LegacyArrays ==
  {LegacyArray(n) : n \in 0..MaxLegacy} \cup {<<LegacyRecord(2), LegacyRecord(1)>>}

NoLegacy == [kind |-> "absent", recs |-> <<>>]

LegacyFiles ==
  {[kind |-> k, recs |-> <<>>] : k \in {"absent", "garbage", "nonarray"}}
    \cup {[kind |-> "array", recs |-> a] : a \in LegacyArrays}

KeyF1 == <<"F", "1">>
KeyF2 == <<"F", "2">>
KeyF3 == <<"F", "3">>
KeyF4 == <<"F", "4">>
Jog == <<"J", "o", "g">>

MacroAction(id) == MacroPrefix \o id

\* gesture key -> action, as migration reads it; one entry is keyed by the
\* action instead, as deleteMacro looks it up
RichBindings ==
  (KeyF1 :> MacroAction(<<"A">>)) @@ (KeyF2 :> MacroAction(IdStr(ID_MIN + 1)))
    @@ (KeyF3 :> MacroAction(IdStr(ID_MIN))) @@ (KeyF4 :> Jog)
    @@ (MacroAction(IdStr(ID_MIN)) :> KeyF1)

PlainBindings == (KeyF1 :> Jog) @@ (KeyF2 :> Null) @@ (KeyF3 :> MacroAction(<<"Z">>))

Settings(kind, b) == [kind |-> kind, hasBindings |-> b # EmptyMap, bindings |-> b]

SettingsWith(b) == [kind |-> "json", hasBindings |-> TRUE, bindings |-> b]

Disk(files, marker, legacy, backup, settings) ==
  [files |-> files, marker |-> marker, legacy |-> legacy, backup |-> backup,
   settings |-> settings, io |-> {}]

\* The installations a behaviour starts from:
\*  - an installation of the old version, never migrated
\*  - an installation already in the new format, with or without the marker
\*  - a legacy file present next to record files; settings that do not read
Installations ==
  {Disk(NoFiles, FALSE, l, FALSE, s) :
     l \in LegacyFiles,
     s \in {SettingsWith(RichBindings), SettingsWith(PlainBindings), Settings("absent", EmptyMap)}}
  \cup
  {Disk(f, m, NoLegacy, FALSE, SettingsWith(RichBindings)) :
     f \in {ValidFiles({ID_MIN}), ValidFiles(IdRange),
            (IdStr(ID_MIN) :> GarbageFile) @@ ValidFiles({ID_MAX})},
     m \in BOOLEAN}
  \cup
  {Disk(ValidFiles({ID_MIN}), FALSE, [kind |-> "array", recs |-> LegacyArray(2)], b,
        SettingsWith(RichBindings)) : b \in BOOLEAN}
  \cup
  {Disk(NoFiles, FALSE, [kind |-> "array", recs |-> LegacyArray(1)], FALSE, s) :
     s \in {Settings("garbage", EmptyMap), Settings("json", EmptyMap)}}

NoOp == [name |-> "init", id |-> Null, data |-> EmptyMap]

Init ==
  /\ fs \in Installations
  /\ now = 2
  /\ op = NoOp
  /\ ret = NoMig
  /\ pre = fs
  /\ mig = NoMig
  /\ migrateRun = <<>>
  /\ migratedCount = 0
  /\ ops = 0
  /\ connected = TRUE
  /\ exec = [r \in Requests |-> IdleRequest]
  /\ controllerLog = <<>>

(***************************************************************************)
(* Inputs                                                                  *)
(***************************************************************************)
\* identifiers as callers supply them: the range, and one with white space
\* and a suffix that parseInt drops, one out of range, one that is no number
IdInputs ==
  {IdStr(i) : i \in IdRange}
    \cup {<<" ">> \o IdStr(ID_MIN) \o <<"x">>, IdStr(ID_MIN - 1), <<"x">>}

CreateInputs ==
  {[name |-> <<"X">>, description |-> Undefined, commands |-> <<"G", "1">>],
   [name |-> Undefined, description |-> <<"d">>, commands |-> Undefined]}

UpdateInputs ==
  {("name" :> <<"Y">>) @@ ("id" :> IdStr(ID_MAX)) @@ ("createdAt" :> 0)}

Count(n, r) == IF r.migrated /\ n < 2 THEN n + 1 ELSE n

Started == [fs EXCEPT !.io = {}]

(***************************************************************************)
(* Operations                                                              *)
(***************************************************************************)
Migrate ==
  /\ ops < MaxOps
  /\ \E r \in {migrateLegacyMacrosIfNeeded(Started, now)} :
       /\ ops' = ops + 1
       /\ fs' = r.disk
       /\ op' = [NoOp EXCEPT !.name = "migrate"]
       /\ ret' = r.ret
       /\ mig' = r.ret
       /\ pre' = Started
       /\ migrateRun' = IF migrateRun = <<>> THEN <<r.ret>>
                        ELSE <<migrateRun[Len(migrateRun)], r.ret>>
       /\ migratedCount' = Count(migratedCount, r.ret)
       /\ UNCHANGED <<now, execVars>>

ReadAll ==
  /\ ops < MaxOps
  /\ \E entries \in DirOrders(ReadMacrosDisk(Started, now)) :
     \E r \in {readMacros(Started, entries, now)} :
       /\ ops' = ops + 1
       /\ fs' = r.disk
       /\ op' = [NoOp EXCEPT !.name = "readAll"]
       /\ ret' = r.macros
       /\ mig' = r.mig
       /\ pre' = Started
       /\ migrateRun' = <<>>
       /\ migratedCount' = Count(migratedCount, r.mig)
       /\ UNCHANGED <<now, execVars>>

Get ==
  /\ ops < MaxOps
  /\ \E id \in IdInputs :
    /\ ops' = ops + 1
    /\ fs' = Started
    /\ op' = [NoOp EXCEPT !.name = "get", !.id = id]
    /\ ret' = getMacro(Started, id)
    /\ mig' = NoMig
    /\ pre' = Started
    /\ migrateRun' = <<>>
    /\ UNCHANGED <<now, migratedCount, execVars>>

Create ==
  /\ ops < MaxOps
  /\ \E data \in CreateInputs :
     \E entries \in DirOrders(ReadMacrosDisk(Started, now)) :
     \E r \in {createMacro(Started, entries, data, now)} :
       /\ ops' = ops + 1
       /\ fs' = r.disk
       /\ op' = [NoOp EXCEPT !.name = "create", !.data = data]
       /\ ret' = [status |-> r.status, macro |-> r.macro]
       /\ mig' = r.mig
       /\ pre' = Started
       /\ migrateRun' = <<>>
       /\ migratedCount' = Count(migratedCount, r.mig)
       /\ UNCHANGED <<now, execVars>>

Update ==
  /\ ops < MaxOps
  /\ \E id \in IdInputs, updates \in UpdateInputs :
     \E r \in {updateMacro(Started, id, updates, now)} :
       /\ ops' = ops + 1
       /\ fs' = r.disk
       /\ op' = [NoOp EXCEPT !.name = "update", !.id = id, !.data = updates]
       /\ ret' = [status |-> r.status, macro |-> r.macro]
       /\ mig' = NoMig
       /\ pre' = Started
       /\ migrateRun' = <<>>
       /\ UNCHANGED <<now, migratedCount, execVars>>

Delete ==
  /\ ops < MaxOps
  /\ \E id \in IdInputs :
     \E r \in {deleteMacro(Started, id)} :
       /\ ops' = ops + 1
       /\ fs' = r.disk
       /\ op' = [NoOp EXCEPT !.name = "delete", !.id = id]
       /\ ret' = [status |-> r.status, id |-> r.id]
       /\ mig' = NoMig
       /\ pre' = Started
       /\ migrateRun' = <<>>
       /\ UNCHANGED <<now, migratedCount, execVars>>

Next == Migrate \/ ReadAll \/ Get \/ Create \/ Update \/ Delete

Spec == Init /\ [][Next]_vars

(***************************************************************************)
(* Write faults.  fs.writeFileSync of writeMacroFile (line 84) throws for  *)
(* the failAt-th legacy record: the records before it are on disk, and     *)
(* the exception leaves forEach (lines 166-180), which nothing catches.    *)
(***************************************************************************)
Raised == [raised |-> TRUE, result |-> NoMig]

Returned(result) == [raised |-> FALSE, result |-> result]

migrateWriteFault(d, t, failAt) ==
  LET plain == migrateLegacyMacrosIfNeeded(d, t)
  IN IF plain.ret.migrated /\ failAt <= plain.ret.count
     THEN [disk |-> WriteLegacyMacros(backupLegacyMacros(d), readLegacyMacros(d).recs,
                                      failAt - 1, t),
           ret |-> Raised]
     ELSE [disk |-> plain.disk, ret |-> Returned(plain.ret)]

\* readMacros (line 309) calls the migration outside any try
readMacrosWriteFault(d, t, failAt) ==
  LET m == migrateWriteFault(d, t, failAt)
  IN IF m.ret.raised THEN m
     ELSE [disk |-> ReadMacrosDisk(d, t), ret |-> m.ret]

Faulted(name, r) ==
  /\ ops < MaxOps
  /\ ops' = ops + 1
  /\ fs' = r.disk
  /\ op' = [NoOp EXCEPT !.name = name]
  /\ ret' = r.ret
  /\ mig' = NoMig
  /\ pre' = Started
  /\ migrateRun' = <<>>
  /\ UNCHANGED <<now, migratedCount, execVars>>

MigrateWriteFault ==
  \E failAt \in 1..MaxLegacy : Faulted("migrateFault", migrateWriteFault(Started, now, failAt))

ReadAllWriteFault ==
  \E failAt \in 1..MaxLegacy : Faulted("readAllFault", readMacrosWriteFault(Started, now, failAt))

FaultNext == MigrateWriteFault \/ ReadAllWriteFault \/ Migrate \/ ReadAll

FaultSpec == Init /\ [][FaultNext]_vars

(***************************************************************************)
(* A legacy file that appears late.  The installation starts without       *)
(* macros.json, marker and record files; after some Storage call, each of  *)
(* which runs the migration first, a macros.json is put in place.          *)
(***************************************************************************)
EmptyInstall(d) == ~d.marker /\ DOMAIN d.files = {} /\ d.legacy.kind = "absent"

LegacyInit ==
  /\ fs \in {d \in Installations : EmptyInstall(d)}
  /\ now = 2
  /\ op = NoOp
  /\ ret = NoMig
  /\ pre = fs
  /\ mig = NoMig
  /\ migrateRun = <<>>
  /\ migratedCount = 0
  /\ ops = 0
  /\ connected = TRUE
  /\ exec = [r \in Requests |-> IdleRequest]
  /\ controllerLog = <<>>

IntroduceLegacy ==
  \E recs \in {LegacyArray(n) : n \in 1..RangeSlots} :
    /\ ops >= 1
    /\ ops < MaxOps
    /\ fs.legacy.kind = "absent"
    /\ ops' = ops + 1
    /\ fs' = [Started EXCEPT !.legacy = [kind |-> "array", recs |-> recs]]
    /\ op' = [NoOp EXCEPT !.name = "introduce"]
    /\ ret' = NoMig
    /\ mig' = NoMig
    /\ pre' = Started
    /\ migrateRun' = <<>>
    /\ UNCHANGED <<now, migratedCount, execVars>>

LegacyNext == Migrate \/ ReadAll \/ Create \/ IntroduceLegacy

LegacySpec == LegacyInit /\ [][LegacyNext]_vars

(***************************************************************************)
(* A clock that moves.  new Date() (lines 163, 346, 375) reads a clock     *)
(* that never goes back but need not have moved between two calls: the     *)
(* ISO string has millisecond resolution.  A tick is recorded in op, so    *)
(* that now is the reading an operation took while op names it.            *)
(***************************************************************************)
MaxClock == 4

\* The installations start empty, in the new format, or with a legacy
\* file; one legacy record is stamped later than any reading of this
\* clock, as a file brought over from another machine can be.
ClockInit ==
  /\ fs \in {Disk(NoFiles, FALSE, l, FALSE, SettingsWith(RichBindings)) :
               l \in {NoLegacy,
                      [kind |-> "array", recs |-> LegacyArray(2)],
                      [kind |-> "array",
                       recs |-> <<[LegacyRecord(1) EXCEPT !.updatedAt = MaxClock + 1]>>]}}
             \cup {Disk(ValidFiles({ID_MIN}), TRUE, NoLegacy, FALSE,
                        SettingsWith(RichBindings))}
  /\ now = 2
  /\ op = NoOp
  /\ ret = NoMig
  /\ pre = fs
  /\ mig = NoMig
  /\ migrateRun = <<>>
  /\ migratedCount = 0
  /\ ops = 0
  /\ connected = TRUE
  /\ exec = [r \in Requests |-> IdleRequest]
  /\ controllerLog = <<>>

Tick ==
  /\ now < MaxClock
  /\ now' = now + 1
  /\ op' = [NoOp EXCEPT !.name = "tick"]
  /\ UNCHANGED <<fs, ret, pre, mig, migrateRun, migratedCount, ops, execVars>>

ClockNext == Tick \/ Migrate \/ Create \/ Update

ClockSpec == ClockInit /\ [][ClockNext]_vars

(***************************************************************************)
(* Macro routes: handleExecute (src/unnamed/part_000, lines 175-232)       *)
(*                                                                         *)
(* A request runs to its next await in one step.  The pipeline             *)
(* (commandProcessor.instance.process) and the controller (sendCommand)    *)
(* are outside the sources: their promises resolve with any result of      *)
(* PipelineResults, or reject.                                             *)
(***************************************************************************)
Command(k) == <<"C">> \o NumToStr(k)

\* one list of every length, and one that repeats a command
CommandLists ==
  {[k \in 1..n |-> Command(k)] : n \in 0..MaxCmds} \cup {[k \in 1..MaxCmds |-> Command(1)]}

PipelineResults ==
  {[shouldContinue |-> TRUE, commands |-> l, message |-> <<>>] : l \in CommandLists}
    \cup {[shouldContinue |-> FALSE, commands |-> <<>>, message |-> <<"n", "o">>],
          [shouldContinue |-> FALSE, commands |-> <<Command(1)>>, message |-> Undefined]}

Envelope(status, message) == [status |-> status, message |-> message]

ExecutionFailed == <<"E", "x", "e", "c", "u", "t", "i", "o", "n", " ", "f", "a", "i", "l", "e", "d">>

\* the sendCommand calls of request r, in the order the controller got them
Sent(r) ==
  LET own == SelectSeq(controllerLog, LAMBDA e : e.request = r)
  IN [k \in 1..Len(own) |-> own[k].command]

\* a forwarding that skips a command equal to the one the controller
\* received last, whichever request sent that one
SendCommandCoalesced(r, command) ==
  IF controllerLog # <<>> /\ controllerLog[Len(controllerLog)].command = command
  THEN controllerLog
  ELSE Append(controllerLog, [request |-> r, command |-> command])

\* cncController.sendCommand(cmd.command, ...): the call reaches the controller
SendCommand(r, command) == Append(controllerLog, [request |-> r, command |-> command])

Respond(x, status, message) ==
  [x EXCEPT !.pc = "done", !.responses = Append(@, Envelope(status, message))]

\* a loop that walks the command list from its end
ForwardNextReversed(r, x, issued) ==
  IF issued < Len(x.commands)
  THEN /\ exec' = [exec EXCEPT ![r] = [x EXCEPT !.pc = "send"]]
       /\ controllerLog' = SendCommand(r, x.commands[Len(x.commands) - issued])
  ELSE /\ exec' = [exec EXCEPT ![r] = Respond(x, 200, <<"o", "k">>)]
       /\ UNCHANGED controllerLog

\* the for loop of lines 206-222, entered with `issued` commands sent: it
\* sends the next command and awaits it, or leaves the loop and answers
ForwardNext(r, x, issued) ==
  IF issued < Len(x.commands)
  THEN /\ exec' = [exec EXCEPT ![r] = [x EXCEPT !.pc = "send"]]
       /\ controllerLog' = SendCommand(r, x.commands[issued + 1])
  ELSE /\ exec' = [exec EXCEPT ![r] = Respond(x, 200, <<"o", "k">>)]
       /\ UNCHANGED controllerLog

\* a handler that tests the connection only before it calls the pipeline
ExecuteConnectionCheckedLast(r) ==
  \E rawId \in IdInputs :
    LET x == [exec[r] EXCEPT !.rawId = rawId, !.connectedAtStart = connected]
        macroId == normalizeMacroId(rawId)
    IN /\ exec[r].pc = "idle"
       /\ exec' = [exec EXCEPT ![r] =
            IF IsFalsy(macroId) \/ ~isValidMacroId(macroId) THEN Respond(x, 400, <<>>)
            ELSE IF ~getMacro(fs, macroId).ok
                 THEN Respond([x EXCEPT !.storageRead = TRUE], 404, <<>>)
            ELSE IF ~connected THEN Respond([x EXCEPT !.storageRead = TRUE], 503, <<>>)
            ELSE [x EXCEPT !.pc = "process", !.macroId = macroId,
                           !.storageRead = TRUE, !.processCalled = TRUE]]
       /\ UNCHANGED <<storeVars, connected, controllerLog>>

\* lines 176-201: up to the await of process(); the request records whether
\* the controller was connected, whether getMacro was called and whether
\* process() was called
Execute(r) ==
  \E rawId \in IdInputs :
    LET x == [exec[r] EXCEPT !.rawId = rawId, !.connectedAtStart = connected]
        macroId == normalizeMacroId(rawId)
    IN /\ exec[r].pc = "idle"
       /\ exec' = [exec EXCEPT ![r] =
            IF ~connected THEN Respond(x, 503, <<>>)
            ELSE IF IsFalsy(macroId) \/ ~isValidMacroId(macroId) THEN Respond(x, 400, <<>>)
            ELSE IF ~getMacro(fs, macroId).ok
                 THEN Respond([x EXCEPT !.storageRead = TRUE], 404, <<>>)
            ELSE [x EXCEPT !.pc = "process", !.macroId = macroId,
                           !.storageRead = TRUE, !.processCalled = TRUE]]
       /\ UNCHANGED <<storeVars, connected, controllerLog>>

\* a handler whose 400 answer lacks its return, so that it goes on to the loop
ProcessResolvesNoReturn(r) ==
  \E result \in PipelineResults :
    /\ exec[r].pc = "process"
    /\ IF ~result.shouldContinue
       THEN ForwardNext(r, [exec[r] EXCEPT
                              !.commands = result.commands,
                              !.message = result.message,
                              !.responses = Append(@, Envelope(400,
                                              OrElse(result.message, ExecutionFailed)))], 0)
       ELSE ForwardNext(r, [exec[r] EXCEPT !.continued = TRUE, !.commands = result.commands], 0)
    /\ UNCHANGED <<storeVars, connected>>

\* lines 201-204 and the first turn of the loop: process() resolved
ProcessResolves(r) ==
  \E result \in PipelineResults :
    /\ exec[r].pc = "process"
    /\ IF ~result.shouldContinue
       THEN /\ exec' = [exec EXCEPT ![r] =
                 Respond([exec[r] EXCEPT !.commands = result.commands,
                                         !.message = result.message],
                         400, OrElse(result.message, ExecutionFailed))]
            /\ UNCHANGED controllerLog
       ELSE ForwardNext(r, [exec[r] EXCEPT !.continued = TRUE, !.commands = result.commands], 0)
    /\ UNCHANGED <<storeVars, connected>>

\* lines 228-231: process() rejected
ProcessRejects(r) ==
  /\ exec[r].pc = "process"
  /\ exec' = [exec EXCEPT ![r] = Respond(exec[r], 500, <<>>)]
  /\ UNCHANGED <<storeVars, connected, controllerLog>>

\* line 217: the awaited sendCommand resolved; the loop goes on
SendResolves(r) ==
  /\ exec[r].pc = "send"
  /\ ForwardNext(r, [exec[r] EXCEPT !.resolved = @ + 1], exec[r].resolved + 1)
  /\ UNCHANGED <<storeVars, connected>>

\* lines 228-231: the awaited sendCommand rejected
SendRejects(r) ==
  /\ exec[r].pc = "send"
  /\ exec' = [exec EXCEPT ![r] = Respond(exec[r], 500, <<>>)]
  /\ UNCHANGED <<storeVars, connected, controllerLog>>

ControllerConnects ==
  /\ ~connected
  /\ connected' = TRUE
  /\ UNCHANGED <<storeVars, exec, controllerLog>>

ControllerDisconnects ==
  /\ connected
  /\ connected' = FALSE
  /\ UNCHANGED <<storeVars, exec, controllerLog>>

ExecInit ==
  /\ fs = Disk(ValidFiles({ID_MIN}), TRUE, NoLegacy, FALSE, SettingsWith(RichBindings))
  /\ now = 2
  /\ op = NoOp
  /\ ret = NoMig
  /\ pre = fs
  /\ mig = NoMig
  /\ migrateRun = <<>>
  /\ migratedCount = 0
  /\ ops = 0
  /\ connected \in BOOLEAN
  /\ exec = [r \in Requests |-> IdleRequest]
  /\ controllerLog = <<>>

ExecNext ==
  \/ \E r \in Requests : Execute(r)
  \/ \E r \in Requests : ProcessResolves(r)
  \/ \E r \in Requests : ProcessRejects(r)
  \/ \E r \in Requests : SendResolves(r)
  \/ \E r \in Requests : SendRejects(r)
  \/ ControllerConnects
  \/ ControllerDisconnects

ExecSpec == ExecInit /\ [][ExecNext]_vars

(***************************************************************************)
(* Macro routes: handleGet, handleUpdate, handleDelete (lines 98-173)      *)
(*                                                                         *)
(* A handler is one step.  Its answer keeps the status and whether a       *)
(* Storage function was called.                                            *)
(***************************************************************************)
Answer(d, status, storage) == [disk |-> d, status |-> status, storage |-> storage]

\* lines 100-103: the identifier test the handlers share
RejectsId(rawId) ==
  LET macroId == normalizeMacroId(rawId)
  IN IsFalsy(macroId) \/ ~isValidMacroId(macroId)

\* a handler that asks Storage before it looks at the identifier
handleGetUnvalidated(d, rawId) ==
  IF ~getMacro(d, rawId).ok THEN Answer(d, 404, TRUE)
  ELSE Answer(d, 200, TRUE)

handleGet(d, rawId) ==
  IF RejectsId(rawId) THEN Answer(d, 400, FALSE)
  ELSE IF ~getMacro(d, normalizeMacroId(rawId)).ok THEN Answer(d, 404, TRUE)
  ELSE Answer(d, 200, TRUE)

\* lines 134-139: the fields of the body that are not undefined
BodyUpdates(body) ==
  [k \in {f \in {"name", "description", "commands"} : body[f] # Undefined} |-> body[k]]

\* `Macro with id ... not found` is answered 404
handleUpdate(d, rawId, body, t) ==
  LET r == updateMacro(d, normalizeMacroId(rawId), BodyUpdates(body), t)
  IN IF RejectsId(rawId) THEN Answer(d, 400, FALSE)
     ELSE IF r.status = "not-found" THEN Answer(d, 404, TRUE)
     ELSE Answer(r.disk, 200, TRUE)

\* an error of unlinkSync is answered 500
handleDelete(d, rawId) ==
  LET r == deleteMacro(d, normalizeMacroId(rawId))
  IN IF RejectsId(rawId) THEN Answer(d, 400, FALSE)
     ELSE IF r.status = "not-found" THEN Answer(d, 404, TRUE)
     ELSE IF r.status # "ok" THEN Answer(d, 500, TRUE)
     ELSE Answer(r.disk, 200, TRUE)

UpdateBodies ==
  {[name |-> <<"Y">>, description |-> Undefined, commands |-> Undefined]}

\* a route was called: op keeps its name and identifier, ret its answer
Routed(name, rawId, answer) ==
  /\ fs' = answer.disk
  /\ op' = [NoOp EXCEPT !.name = name, !.id = rawId]
  /\ ret' = [status |-> answer.status, storage |-> answer.storage]
  /\ pre' = Started
  /\ UNCHANGED <<now, mig, migrateRun, migratedCount, ops, execVars>>

HandleGet == \E rawId \in IdInputs : Routed("handleGet", rawId, handleGet(Started, rawId))

HandleUpdate ==
  \E rawId \in IdInputs, body \in UpdateBodies :
    Routed("handleUpdate", rawId, handleUpdate(Started, rawId, body, now))

HandleDelete ==
  \E rawId \in IdInputs : Routed("handleDelete", rawId, handleDelete(Started, rawId))

\* the first execute request, up to its await
HandleExecute == Execute("r1")

RouteInit ==
  /\ fs \in {Disk(ValidFiles(S), TRUE, NoLegacy, FALSE, SettingsWith(RichBindings)) :
               S \in {{ID_MIN}, IdRange}}
  /\ now = 2
  /\ op = NoOp
  /\ ret = NoMig
  /\ pre = fs
  /\ mig = NoMig
  /\ migrateRun = <<>>
  /\ migratedCount = 0
  /\ ops = 0
  /\ connected \in BOOLEAN
  /\ exec = [r \in Requests |-> IdleRequest]
  /\ controllerLog = <<>>

RouteNext ==
  \/ HandleGet
  \/ HandleUpdate
  \/ HandleDelete
  \/ HandleExecute
  \/ ControllerConnects
  \/ ControllerDisconnects

RouteSpec == RouteInit /\ [][RouteNext]_vars

(***************************************************************************)
(* M98Expander.expand (src/unnamed/part_000, lines 21-51)                  *)
(***************************************************************************)
\* line.trim(): white space dropped at both ends
RECURSIVE TrimEnd(_)
TrimEnd(s) ==
  IF s # <<>> /\ IsSpace(s[Len(s)]) THEN TrimEnd(SubSeq(s, 1, Len(s) - 1)) ELSE s

\* a map step that leaves the line as it is
TrimOmitted(s) == s

Trim(s) == TrimEnd(SkipSpace(s))

\* text.split('\n'): the pieces between the line feeds, the empty ones too
RECURSIVE SplitLines(_, _)
SplitLines(s, cur) ==
  IF s = <<>> THEN <<cur>>
  ELSE IF Head(s) = "\n" THEN <<cur>> \o SplitLines(Tail(s), <<>>)
  ELSE SplitLines(Tail(s), Append(cur, Head(s)))

\* lines 41-44: String(macro.commands || '').split('\n').map(trim).filter
ExpandCommands(commands) ==
  LET lines == SplitLines(JsString(OrElse(commands, <<>>)), <<>>)
      trimmed == [k \in 1..Len(lines) |-> Trim(lines[k])]
  IN SelectSeq(trimmed, LAMBDA line : line # <<>>)

M98 == <<"M", "9", "8">>

RECURSIVE DigitsPrefix(_)
DigitsPrefix(s) ==
  IF s # <<>> /\ IsDigit(Head(s)) THEN <<Head(s)>> \o DigitsPrefix(Tail(s)) ELSE <<>>

\* utils/gcode-patterns.js (imported at line 18), after the specification's
\* grammar: the keyword M98, then optionally a parameter P and its digits
parseM98Command(command) ==
  LET t == Trim(command)
      rest == SkipSpace(Slice(t, Len(M98)))
  IN IF ~StartsWith(t, M98) THEN [matched |-> FALSE, macroId |-> Null]
     ELSE IF Len(t) > Len(M98) /\ IsDigit(t[Len(M98) + 1])
          THEN [matched |-> FALSE, macroId |-> Null]
     ELSE IF rest # <<>> /\ Head(rest) = "P" /\ DigitsPrefix(Tail(rest)) # <<>>
          THEN [matched |-> TRUE, macroId |-> DigitsPrefix(Tail(rest))]
     ELSE [matched |-> TRUE, macroId |-> Null]

\* what expand gives: null, a thrown error with its code, or macro and commands
ExpandNull == [kind |-> "null", code |-> "", id |-> Null, macro |-> NoObj, commands |-> <<>>]

ExpandThrow(code, id) == [ExpandNull EXCEPT !.kind = "throw", !.code = code, !.id = id]

\* an expander that takes a command without identifier for another command
expandMissingIdAsNull(d, command) ==
  LET parsed == parseM98Command(command)
      got == getMacro(d, parsed.macroId)
  IN IF ~parsed.matched \/ IsFalsy(parsed.macroId) THEN ExpandNull
     ELSE IF ~got.ok THEN ExpandThrow("M98_NOT_FOUND", parsed.macroId)
     ELSE [ExpandNull EXCEPT !.kind = "ok", !.macro = got.macro,
                             !.commands = ExpandCommands(got.macro.commands)]

expand(d, command) ==
  LET parsed == parseM98Command(command)
      got == getMacro(d, parsed.macroId)
  IN IF ~parsed.matched THEN ExpandNull
     ELSE IF IsFalsy(parsed.macroId) THEN ExpandThrow("M98_MISSING_ID", Null)
     ELSE IF ~got.ok THEN ExpandThrow("M98_NOT_FOUND", parsed.macroId)
     ELSE [ExpandNull EXCEPT !.kind = "ok", !.macro = got.macro,
                             !.commands = ExpandCommands(got.macro.commands)]

\* the characters of a stored commands text: a letter, white space, line ends
TextChars == {"a", " ", "\t", "\r", "\n"}

RECURSIVE TextsOfLen(_)
TextsOfLen(n) ==
  IF n = 0 THEN {<<>>}
  ELSE {Append(t, c) : t \in TextsOfLen(n - 1), c \in TextChars}

Texts == UNION {TextsOfLen(n) : n \in 0..MaxText}

\* commands as createMacro and a hand-edited file leave them
StoredCommands == Texts \cup {Undefined}

\* invocation commands as the pipeline hands them over
P(id) == <<"P">> \o id

ExpandInputs ==
  {M98 \o <<" ">> \o P(IdStr(ID_MIN)),
   M98 \o P(IdStr(ID_MIN)),
   <<" ">> \o M98 \o <<" ">> \o P(<<"0">> \o IdStr(ID_MIN)) \o <<" ">>,
   M98 \o <<" ">> \o P(IdStr(ID_MAX)),
   M98 \o <<" ">> \o P(IdStr(ID_MIN - 1)),
   M98 \o <<" ">> \o P(IdStr(ID_MAX + 1)),
   M98 \o <<" ">> \o P(<<"0">>),
   M98,
   M98 \o <<" ">> \o <<"P">>,
   M98 \o <<"0">>,
   <<"G", "0">>,
   <<>>}

\* record ID_MIN holds the text; the file of ID_MAX holds no JSON
ExpandDisks ==
  {Disk((IdStr(ID_MIN) :> JsonFile([InitMacro(ID_MIN) EXCEPT !.commands = text]))
          @@ (IdStr(ID_MAX) :> GarbageFile),
        TRUE, NoLegacy, FALSE, SettingsWith(PlainBindings)) : text \in StoredCommands}

ExpandInit ==
  /\ fs \in ExpandDisks
  /\ now = 2
  /\ op = NoOp
  /\ ret = NoMig
  /\ pre = fs
  /\ mig = NoMig
  /\ migrateRun = <<>>
  /\ migratedCount = 0
  /\ ops = 0
  /\ connected = FALSE
  /\ exec = [r \in Requests |-> IdleRequest]
  /\ controllerLog = <<>>

Expand ==
  \E command \in ExpandInputs :
    /\ op.name = "init"
    /\ op' = [NoOp EXCEPT !.name = "expand", !.id = command]
    /\ ret' = expand(fs, command)
    /\ UNCHANGED <<fs, now, pre, mig, migrateRun, migratedCount, ops, execVars>>

ExpandNext == Expand

ExpandSpec == ExpandInit /\ [][ExpandNext]_vars

(***************************************************************************)
(* Properties of Storage and Migration, checked under Spec                 *)
(***************************************************************************)
\* the identifiers of the records readAll returns on disk d
ListedIds(d, entries) ==
  LET listed == readMacros(d, entries, now).macros
  IN {ParseInt(listed[i].id).v : i \in 1..Len(listed)}

\* C1: when an identifier of the range is free, create returns a record
\* whose id is the lowest integer of the range that no record returned by
\* readAll at that moment uses, and a get of that id right afterwards
\* returns an equal record.
C1_CreateTakesLowestFreeId ==
  op.name = "create" =>
    \A entries \in DirOrders(ReadMacrosDisk(pre, now)) :
      LET free == IdRange \ ListedIds(pre, entries)
          n == ParseInt(ret.macro.id)
      IN free # {} =>
           /\ ret.status = "ok"
           /\ ~n.nan
           /\ ret.macro.id = NumToStr(n.v)
           /\ n.v \in free
           /\ \A other \in free : n.v <= other
           /\ getMacro(fs, ret.macro.id) = [ok |-> TRUE, macro |-> ret.macro]

\* a create that ran the migration itself and took the id after the
\* migrated record
C1_Witness ==
  /\ op.name = "create"
  /\ ret.status = "ok"
  /\ mig.migrated
  /\ mig.count = 1
  /\ ret.macro.id = IdStr(ID_MIN + 1)
  /\ getMacro(fs, IdStr(ID_MIN + 1)).ok

\* C2: after delete(id) succeeded, get(id) returns null and no entry of the
\* keyboard-binding mapping (gesture key -> action string) has the action
\* string Macro:<id>.
C2_DeleteRemovesBinding ==
  (op.name = "delete" /\ ret.status = "ok") =>
    /\ ~getMacro(fs, ret.id).ok
    /\ (fs.settings.kind = "json" /\ fs.settings.hasBindings) =>
         \A key \in DOMAIN fs.settings.bindings :
           fs.settings.bindings[key] # MacroAction(ret.id)

\* C3: in every reachable state the list readAll returns is sorted strictly
\* ascending by numeric identifier, without duplicates, and every
\* identifier in it lies in the range.
C3_ReadAllSortedInRange ==
  \A entries \in DirOrders(ReadMacrosDisk(fs, now)) :
    LET listed == readMacros(fs, entries, now).macros
        Num(i) == ParseInt(listed[i].id)
    IN /\ \A i \in 1..Len(listed) : ~Num(i).nan /\ Num(i).v \in IdRange
       /\ \A i \in 1..(Len(listed) - 1) : Num(i).v < Num(i + 1).v

\* a readAll, after other calls, that returned a record for every slot
C3_Witness ==
  /\ op.name = "readAll"
  /\ ops >= 2
  /\ Len(ret) = RangeSlots
  /\ \A i \in 1..RangeSlots : ret[i].id = IdStr(ID_MIN + i - 1)

\* C4 as stated: when migrateIfNeeded is called twice in a row, the second
\* call returns {migrated:false, reason:'marker'} and leaves the set of
\* per-record files as the first call left it.
C4_SecondCallReportsMarker ==
  Len(migrateRun) = 2 =>
    /\ migrateRun[2] = MigResult(FALSE, "marker", 0)
    /\ fs.files = pre.files

\* C4 amended: the second of two calls in a row leaves the per-record files
\* as the first left them; it returns reason 'marker' when the first call
\* returned migrated:true, 'marker' or 'existing', and otherwise repeats
\* the first call's no-legacy, read-failed or range-exceeded result.
C4_SecondCallIdempotent ==
  Len(migrateRun) = 2 =>
    /\ fs.files = pre.files
    /\ IF migrateRun[1].migrated \/ migrateRun[1].reason \in {"marker", "existing"}
       THEN migrateRun[2] = MigResult(FALSE, "marker", 0)
       ELSE /\ migrateRun[2] = migrateRun[1]
            /\ migrateRun[1].reason \in {"no-legacy", "read-failed", "range-exceeded"}

\* a second call right after a migration that wrote records
C4_Witness ==
  /\ Len(migrateRun) = 2
  /\ migrateRun[1].migrated
  /\ migrateRun[1].count >= 1
  /\ migrateRun[2].reason = "marker"
  /\ DOMAIN fs.files # {}

\* C5: at most one migration run of a behaviour, called directly or through
\* readAll or create, returns migrated:true; every run after it returns
\* 'marker' and, called directly, changes nothing on disk.
C5_MigratesAtMostOnce ==
  /\ migratedCount <= 1
  /\ (migratedCount = 1 /\ mig.reason # "none" /\ ~mig.migrated) => mig.reason = "marker"
  /\ (migratedCount = 1 /\ op.name = "migrate" /\ ~ret.migrated) => fs = pre

\* legacy records were migrated, every record was deleted, and a further
\* call still answers 'marker' and writes no record
C5_Witness ==
  /\ migratedCount = 1
  /\ op.name = "migrate"
  /\ ret.reason = "marker"
  /\ fs.legacy.kind = "array"
  /\ Len(fs.legacy.recs) >= 1
  /\ DOMAIN fs.files = {}

\* the case of C6 and C8: no marker, no per-record file, a legacy array
FreshLegacy(d) ==
  /\ ~d.marker
  /\ DOMAIN d.files = {}
  /\ d.legacy.kind = "array"

\* the per-record files are exactly 9001 .. 9001+n-1, each a record with
\* its own identifier
MigratedIds(d, n) ==
  /\ DOMAIN d.files = {IdStr(ID_MIN + i) : i \in 0..(n - 1)}
  /\ \A name \in DOMAIN d.files : d.files[name].text = "json" /\ d.files[name].obj.id = name

\* C6 as stated: with no marker, no per-record file and a legacy array of
\* N records that fits the range, migrateIfNeeded returns {migrated:true,
\* count:N}, leaves exactly the files 9001..9001+N-1, and file 9001+i
\* carries the name, description and commands of the i-th legacy record.
C6_MigrationCarriesFields ==
  (op.name = "migrate" /\ FreshLegacy(pre) /\ Len(pre.legacy.recs) <= ID_MAX - ID_MIN + 1) =>
    LET recs == pre.legacy.recs
    IN /\ ret = MigResult(TRUE, "", Len(recs))
       /\ MigratedIds(fs, Len(recs))
       /\ \A i \in 1..Len(recs) :
            LET m == fs.files[IdStr(ID_MIN + i - 1)].obj
            IN /\ m.name = recs[i].name
               /\ m.description = recs[i].description
               /\ m.commands = recs[i].commands

\* C6 amended: as C6, except that a legacy name that is missing or empty
\* becomes `Macro <new id>`, and a missing description or commands text
\* becomes the empty string.
C6_MigrationCarriesFieldsOrDefaults ==
  (op.name = "migrate" /\ FreshLegacy(pre) /\ Len(pre.legacy.recs) <= ID_MAX - ID_MIN + 1) =>
    LET recs == pre.legacy.recs
    IN /\ ret = MigResult(TRUE, "", Len(recs))
       /\ MigratedIds(fs, Len(recs))
       /\ \A i \in 1..Len(recs) :
            LET m == fs.files[IdStr(ID_MIN + i - 1)].obj
            IN /\ m.name = IF recs[i].name \in {Undefined, Null, <<>>}
                           THEN DefaultName(IdStr(ID_MIN + i - 1)) ELSE recs[i].name
               /\ m.description = IF recs[i].description \in {Undefined, Null}
                                  THEN <<>> ELSE recs[i].description
               /\ m.commands = IF recs[i].commands \in {Undefined, Null}
                               THEN <<>> ELSE recs[i].commands

\* a legacy array that fills the range was migrated in its order, one
\* record keeping its name and one getting the default name
C6_Witness ==
  /\ op.name = "migrate"
  /\ FreshLegacy(pre)
  /\ ret.migrated
  /\ ret.count = RangeSlots
  /\ fs.files[IdStr(ID_MIN)].obj.name = pre.legacy.recs[1].name
  /\ fs.files[IdStr(ID_MIN + 1)].obj.name = DefaultName(IdStr(ID_MIN + 1))

\* the bindings of d, or none when settings.json holds none
BindingsOf(d) ==
  IF d.settings.kind = "json" /\ d.settings.hasBindings THEN d.settings.bindings ELSE EmptyMap

\* the legacy records whose stringified id the action string v names
NamedBy(recs, v) ==
  IF IsString(v) /\ StartsWith(v, MacroPrefix)
  THEN {i \in 1..Len(recs) : JsString(recs[i].id) = Slice(v, Len(MacroPrefix))}
  ELSE {}

\* C7: after a migration that returned migrated:true, every binding whose
\* action string was Macro:<oldId>, oldId the stringified id of a legacy
\* record, is Macro:<newId> with the id given to that record; every other
\* entry is unchanged; settings.json is written only if an entry was
\* rewritten.
C7_BindingsFollowMigration ==
  mig.migrated =>
    LET recs == pre.legacy.recs
        before == BindingsOf(pre)
        after == BindingsOf(fs)
    IN /\ DOMAIN after = DOMAIN before
       /\ \A key \in DOMAIN before :
            /\ \A i \in NamedBy(recs, before[key]) :
                 after[key] = MacroAction(IdStr(ID_MIN + i - 1))
            /\ NamedBy(recs, before[key]) = {} => after[key] = before[key]
       /\ "settings" \in fs.io => \E key \in DOMAIN before : NamedBy(recs, before[key]) # {}
       /\ "settings" \notin fs.io => fs.settings = pre.settings

\* a migration that moved the binding of legacy id 9002 to 9001 and that
\* of legacy id A to 9002, leaving the others alone
C7_Witness ==
  /\ mig.migrated
  /\ "settings" \in fs.io
  /\ BindingsOf(pre) = RichBindings
  /\ BindingsOf(fs)[KeyF2] = MacroAction(IdStr(ID_MIN))
  /\ BindingsOf(fs)[KeyF1] = MacroAction(IdStr(ID_MIN + 1))
  /\ BindingsOf(fs)[KeyF4] = Jog

\* C8 as stated: with no marker, no per-record file and a legacy array
\* longer than the range, migrateIfNeeded returns range-exceeded and writes
\* nothing: no per-record file, no marker, no backup, no settings change.
C8_RangeExceededWritesNothing ==
  (op.name = "migrate" /\ FreshLegacy(pre) /\ Len(pre.legacy.recs) > ID_MAX - ID_MIN + 1) =>
    /\ ret = MigResult(FALSE, "range-exceeded", 0)
    /\ fs.io = {}
    /\ fs = pre

\* C8 amended: as C8, except that the call creates the legacy backup when
\* none exists; it writes no per-record file, no marker and no settings.
C8_RangeExceededWritesBackupOnly ==
  (op.name = "migrate" /\ FreshLegacy(pre) /\ Len(pre.legacy.recs) > ID_MAX - ID_MIN + 1) =>
    /\ ret = MigResult(FALSE, "range-exceeded", 0)
    /\ fs.io = IF pre.backup THEN {} ELSE {"backup"}
    /\ fs = [pre EXCEPT !.backup = TRUE, !.io = fs.io]

\* an over-long legacy array was refused and its backup made
C8_Witness ==
  /\ op.name = "migrate"
  /\ FreshLegacy(pre)
  /\ Len(pre.legacy.recs) = RangeSlots + 1
  /\ ret.reason = "range-exceeded"
  /\ ~pre.backup
  /\ fs.backup
  /\ DOMAIN fs.files = {}
  /\ ~fs.marker

\* the files of d other than the record file `name`, with everything else
\* on disk
OtherFiles(d, name) ==
  [d EXCEPT !.files = [k \in (DOMAIN d.files) \ {name} |-> d.files[k]], !.io = {}]

\* C14 as stated: update(id, updates) on an existing record persists and
\* returns a record with the id and createdAt of before, the fields not
\* named in updates unchanged and the provided fields as supplied; no other
\* record file changes.
C14_UpdateChangesNamedFieldsOnly ==
  (op.name = "update" /\ getMacro(pre, op.id).ok) =>
    LET before == getMacro(pre, op.id).macro
    IN /\ ret.status = "ok"
       /\ getMacro(fs, op.id).macro = ret.macro
       /\ ret.macro.id = before.id
       /\ ret.macro.createdAt = before.createdAt
       /\ \A k \in (DOMAIN before) \ (DOMAIN op.data) : ret.macro[k] = before[k]
       /\ \A k \in (DOMAIN op.data) \ {"id", "createdAt"} : ret.macro[k] = op.data[k]
       /\ OtherFiles(fs, before.id) = OtherFiles(pre, before.id)

\* C14 amended: as C14, except that updatedAt is no field left unchanged:
\* it is set to the time of the call, whether updates names it or not.
C14_UpdateRefreshesUpdatedAt ==
  (op.name = "update" /\ getMacro(pre, op.id).ok) =>
    LET before == getMacro(pre, op.id).macro
    IN /\ ret.status = "ok"
       /\ getMacro(fs, op.id).macro = ret.macro
       /\ ret.macro.id = before.id
       /\ ret.macro.createdAt = before.createdAt
       /\ ret.macro.updatedAt = now
       /\ \A k \in (DOMAIN before) \ (DOMAIN op.data \cup {"updatedAt"}) :
            ret.macro[k] = before[k]
       /\ \A k \in (DOMAIN op.data) \ {"id", "createdAt", "updatedAt"} :
            ret.macro[k] = op.data[k]
       /\ OtherFiles(fs, before.id) = OtherFiles(pre, before.id)

\* an update that supplied another id and createdAt changed the name of a
\* record that has a neighbour
C14_Witness ==
  /\ op.name = "update"
  /\ ret.status = "ok"
  /\ {"id", "createdAt", "name"} \subseteq DOMAIN op.data
  /\ op.data.id # ret.macro.id
  /\ op.data.createdAt # ret.macro.createdAt
  /\ getMacro(pre, op.id).macro.name # ret.macro.name
  /\ Cardinality(DOMAIN fs.files) >= 2

\* C16: when macros.json exists (no marker, no per-record file) but does
\* not parse, or parses to a value that is no array, migrateIfNeeded
\* returns {migrated:false, reason:'read-failed'} and writes no marker, so
\* that the next run tries again.
C16_UnreadableLegacyIsRetried ==
  (op.name = "migrate" /\ ~pre.marker /\ DOMAIN pre.files = {}
     /\ pre.legacy.kind \in {"garbage", "nonarray"}) =>
    /\ ret = MigResult(FALSE, "read-failed", 0)
    /\ ~fs.marker
    /\ migrateLegacyMacrosIfNeeded(fs, now).ret.reason # "marker"

\* C17 (checked under FaultSpec): migrateIfNeeded never raises: when a
\* write fails, the write of the k-th per-record file included, the call
\* returns a non-migrated outcome, and readAll, which calls it, does not
\* fail because of it.
C17_MigrationNeverRaises ==
  op.name \in {"migrateFault", "readAllFault"} =>
    /\ ~ret.raised
    /\ ~ret.result.migrated \/ fs.marker

\* C18: get, like readAll, runs migration before it reads: with a valid
\* legacy file that fits the range, no marker and no per-record file, a
\* first get(9001) returns the migrated record and not null.
C18_GetMigratesFirst ==
  (op.name = "get" /\ FreshLegacy(pre) /\ Len(pre.legacy.recs) >= 1
     /\ ~RangeExceeded(Len(pre.legacy.recs))
     /\ normalizeMacroId(op.id) = IdStr(ID_MIN)) =>
    /\ ret.ok
    /\ ret.macro.id = IdStr(ID_MIN)
    /\ fs.marker

\* the disk as the migration step of a readAll on disk d leaves it
AfterMigration(d) == migrateLegacyMacrosIfNeeded(d, now).disk

\* the readAll that just ran wrote a record file after its migration step
Seeded == fs.files # AfterMigration(pre).files

\* C19: readAll seeds the default record (id 9001) iff, after its migration
\* step, no per-record file exists and either no legacy file is present or
\* a legacy file is present with the marker; it seeds one record at most,
\* overwrites no record file, and never seeds while a legacy file without
\* marker is on disk.
C19_DefaultSeededOnlyWhenEmpty ==
  op.name = "readAll" =>
    LET m == AfterMigration(pre)
    IN /\ Seeded <=> /\ DOMAIN m.files = {}
                     /\ m.legacy.kind = "absent" \/ m.marker
       /\ Seeded => /\ DOMAIN fs.files = {IdStr(ID_MIN)}
                    /\ fs.files[IdStr(ID_MIN)] = JsonFile(DEFAULT_MACRO)
       /\ \A name \in DOMAIN m.files :
            name \in DOMAIN fs.files /\ fs.files[name] = m.files[name]
       /\ (m.legacy.kind # "absent" /\ ~m.marker) => ~Seeded
       /\ [fs EXCEPT !.files = m.files, !.io = {}] = [m EXCEPT !.io = {}]

\* the default record was seeded next to a legacy file whose migration
\* left the marker and no record
C19_Witness ==
  /\ op.name = "readAll"
  /\ Seeded
  /\ fs.legacy.kind # "absent"
  /\ fs.marker
  /\ ~pre.marker
  /\ Len(ret) = 1

\* C20 (checked under LegacySpec): without legacy file, marker and record
\* files, migrateIfNeeded returns {migrated:false, reason:'no-legacy'} and
\* writes no marker, so that a legacy file that appears afterwards is
\* migrated by a later run, whatever readAll and create calls ran in
\* between.
C20_LateLegacyStillMigrated ==
  /\ (op.name = "migrate" /\ EmptyInstall(pre)) =>
       /\ ret = MigResult(FALSE, "no-legacy", 0)
       /\ [fs EXCEPT !.io = {}] = pre
  /\ op.name = "introduce" =>
       LET later == migrateLegacyMacrosIfNeeded(fs, now)
       IN /\ later.ret = MigResult(TRUE, "", Len(fs.legacy.recs))
          /\ MigratedIds(later.disk, Len(fs.legacy.recs))

\* C21: when the marker is absent and at least one per-record file exists,
\* migrateIfNeeded returns {migrated:false, reason:'existing'}, writes the
\* marker, creates the legacy backup exactly when a legacy file is present
\* and no backup exists, and leaves every per-record file, the legacy file
\* and the settings store as they were.
C21_ExistingFilesOnlyMarked ==
  (op.name = "migrate" /\ ~pre.marker /\ listMacroFiles(pre) # {}) =>
    /\ ret = MigResult(FALSE, "existing", 0)
    /\ fs.marker
    /\ "marker" \in fs.io
    /\ ("backup" \in fs.io) <=> (pre.legacy.kind # "absent" /\ ~pre.backup)
    /\ fs.backup = (pre.backup \/ pre.legacy.kind # "absent")
    /\ fs.files = pre.files
    /\ fs.legacy = pre.legacy
    /\ fs.settings = pre.settings
    /\ fs.io \subseteq {"marker", "backup"}

\* a run that found a record file next to a legacy file whose records the
\* bindings name, and wrote the backup and the marker
C21_Witness ==
  /\ op.name = "migrate"
  /\ ~pre.marker
  /\ listMacroFiles(pre) # {}
  /\ pre.legacy.kind = "array"
  /\ Len(pre.legacy.recs) >= 1
  /\ ~pre.backup
  /\ pre.settings.hasBindings
  /\ ret.reason = "existing"
  /\ fs.io = {"marker", "backup"}

\* C22 (checked under ClockSpec): across migration, create and update
\* calls under a clock that never goes back, every update leaves the
\* record's updatedAt strictly greater than it was before the update,
\* also for a record whose updatedAt came from the legacy file.
C22_UpdateAdvancesUpdatedAt ==
  (op.name = "update" /\ ret.status = "ok") =>
    ret.macro.updatedAt > getMacro(pre, op.id).macro.updatedAt

(***************************************************************************)
(* Properties of handleExecute, checked under ExecSpec                     *)
(***************************************************************************)
\* the status of the answer of a request that ended
Status(r) == exec[r].responses[Len(exec[r].responses)].status

IsPrefix(s, t) == Len(s) <= Len(t) /\ s = SubSeq(t, 1, Len(s))

\* C9 as stated: in an execute request whose pipeline result has
\* shouldContinue true, the commands forwarded to the controller are
\* exactly the pipeline's command list in its order, and sendCommand for
\* command k+1 is issued only after the promise of command k resolved.
C9_ForwardsWholeListInOrder ==
  \A r \in Requests :
    exec[r].continued =>
      /\ Len(Sent(r)) <= exec[r].resolved + 1
      /\ exec[r].pc = "done" => Sent(r) = exec[r].commands

\* C9 amended: the commands forwarded are a prefix of the pipeline's list,
\* in its order, and command k+1 is issued only after the promise of
\* command k resolved; the prefix is the whole list when the request
\* answers success, and ends with the command whose sendCommand promise
\* rejected when one rejects.
C9_ForwardsPrefixInOrder ==
  \A r \in Requests :
    IF ~exec[r].continued THEN Sent(r) = <<>>
    ELSE /\ IsPrefix(Sent(r), exec[r].commands)
         /\ Len(Sent(r)) <= exec[r].resolved + 1
         /\ exec[r].pc = "done" =>
              IF Status(r) = 200
              THEN Sent(r) = exec[r].commands /\ exec[r].resolved = Len(exec[r].commands)
              ELSE Len(Sent(r)) = exec[r].resolved + 1

\* a request forwarded a list of distinct commands, in order, while the
\* controller also received commands of the other request
C9_Witness ==
  \E r \in Requests :
    /\ exec[r].pc = "done"
    /\ exec[r].continued
    /\ Status(r) = 200
    /\ Len(exec[r].commands) = MaxCmds
    /\ exec[r].commands[1] # exec[r].commands[MaxCmds]
    /\ Sent(r) = exec[r].commands
    /\ Len(controllerLog) > Len(Sent(r))
    /\ controllerLog[1].request # controllerLog[2].request

\* the answer of a pipeline that refused carries the pipeline's message
PipelineMessage(r) ==
  (exec[r].pc = "done" /\ Status(r) = 400 /\ exec[r].macroId # Null) =>
    /\ ~exec[r].continued
    /\ exec[r].responses[1].message =
         IF exec[r].message \in {Undefined, Null, <<>>} THEN ExecutionFailed
         ELSE exec[r].message

OneEnvelope(r) ==
  /\ Len(exec[r].responses) <= 1
  /\ exec[r].pc = "done" <=> Len(exec[r].responses) = 1

\* C10 as stated: every execute request ends with exactly one envelope,
\* either a success issued after the whole command list was forwarded, or
\* a failure issued with no command forwarded.
C10_NeverFailsAfterPartialForward ==
  \A r \in Requests :
    /\ OneEnvelope(r)
    /\ PipelineMessage(r)
    /\ exec[r].pc = "done" =>
         IF Status(r) = 200
         THEN /\ exec[r].continued
              /\ Sent(r) = exec[r].commands
              /\ exec[r].resolved = Len(exec[r].commands)
         ELSE Sent(r) = <<>>

\* C10 amended: as C10, with a third outcome: a failure (status 500) issued
\* when a sendCommand promise rejects, after the commands up to and
\* including the rejected one were forwarded and none after it.
C10_FailsOnlyBeforeOrAtRejectedSend ==
  \A r \in Requests :
    /\ OneEnvelope(r)
    /\ PipelineMessage(r)
    /\ exec[r].pc = "done" =>
         IF Status(r) = 200
         THEN /\ exec[r].continued
              /\ Sent(r) = exec[r].commands
              /\ exec[r].resolved = Len(exec[r].commands)
         ELSE \/ Sent(r) = <<>>
              \/ /\ Status(r) = 500
                 /\ exec[r].continued
                 /\ exec[r].resolved < Len(exec[r].commands)
                 /\ Sent(r) = SubSeq(exec[r].commands, 1, exec[r].resolved + 1)

\* a request answered 500 after a sendCommand rejected, part of its list
\* forwarded
C10_Witness ==
  \E r \in Requests :
    /\ exec[r].pc = "done"
    /\ Status(r) = 500
    /\ exec[r].continued
    /\ Len(Sent(r)) >= 1
    /\ Len(Sent(r)) < Len(exec[r].commands)

\* C11: when the controller does not report itself connected at the call
\* of execute, the request fails at once (503): process() is never called,
\* no sendCommand is issued and Storage is not read, whatever the
\* identifier.
C11_DisconnectedFailsAtOnce ==
  \A r \in Requests :
    (exec[r].pc # "idle" /\ ~exec[r].connectedAtStart) =>
      /\ exec[r].pc = "done"
      /\ exec[r].responses = <<Envelope(503, <<>>)>>
      /\ ~exec[r].processCalled
      /\ ~exec[r].storageRead
      /\ Sent(r) = <<>>

\* a request for an existing record failed on a disconnected controller,
\* while the other request, made when it was connected, went on to send
C11_Witness ==
  \E r \in Requests :
    /\ exec[r].pc = "done"
    /\ ~exec[r].connectedAtStart
    /\ getMacro(fs, normalizeMacroId(exec[r].rawId)).ok
    /\ \E q \in Requests \ {r} : exec[q].connectedAtStart /\ Sent(q) # <<>>

\* C23 as stated: when two execute requests overlap, the commands the
\* controller received from either request are that request's pipeline
\* list in its order, none dropped and none duplicated.
C23_OverlapDeliversEachList ==
  LET Interleaved ==
        \E i, j, k \in 1..Len(controllerLog) :
          /\ i < j
          /\ j < k
          /\ controllerLog[i].request = controllerLog[k].request
          /\ controllerLog[j].request # controllerLog[i].request
  IN Interleaved =>
       \A r \in Requests :
         (exec[r].pc = "done" /\ exec[r].continued) => Sent(r) = exec[r].commands

\* C23 amended: however the calls of two requests interleave, the k-th
\* call the controller received from a request carries the k-th command
\* of that request's pipeline list, so that the calls of a request are an
\* initial part of its list without gap or repetition; they are the whole
\* list when the request answers success, and stop with the command whose
\* sendCommand promise rejected when the request answers a failure.
C23_OverlapKeepsEachOrder ==
  /\ \A i \in 1..Len(controllerLog) :
       LET r == controllerLog[i].request
           k == Cardinality({j \in 1..i : controllerLog[j].request = r})
       IN /\ exec[r].continued
          /\ k <= Len(exec[r].commands)
          /\ controllerLog[i].command = exec[r].commands[k]
  /\ \A r \in Requests :
       exec[r].pc = "done" =>
         IF Status(r) = 200
         THEN Len(Sent(r)) = Len(exec[r].commands)
         ELSE exec[r].continued =>
                /\ Status(r) = 500
                /\ Len(Sent(r)) = exec[r].resolved + 1

\* two requests, both answered with success, whose commands reached the
\* controller in alternation, each list complete
C23_Witness ==
  /\ \E i, j, k \in 1..Len(controllerLog) :
       /\ i < j
       /\ j < k
       /\ controllerLog[i].request = controllerLog[k].request
       /\ controllerLog[j].request # controllerLog[i].request
  /\ \A r \in Requests :
       /\ exec[r].pc = "done"
       /\ Status(r) = 200
       /\ Len(exec[r].commands) = MaxCmds
       /\ Sent(r) = exec[r].commands
  /\ Len(controllerLog) = 2 * MaxCmds

(***************************************************************************)
(* Properties of M98Expander.expand, checked under ExpandSpec              *)
(***************************************************************************)
\* the command, white space at its ends aside, is the keyword M98 alone or
\* the keyword followed by something that does not lengthen its number
MatchesGrammar(command) ==
  \E a \in 0..Len(command) :
    /\ \A i \in 1..a : IsSpace(command[i])
    /\ Len(command) >= a + 3
    /\ SubSeq(command, a + 1, a + 3) = M98
    /\ Len(command) > a + 3 => ~IsDigit(command[a + 4])

\* the numeric parameters the command carries: the digits that follow a P
NumericParameters(command) ==
  {d \in {SubSeq(command, i + 1, j) : i \in 1..Len(command), j \in 1..Len(command)} :
     /\ d # <<>>
     /\ \A k \in 1..Len(d) : IsDigit(d[k])
     /\ \E i \in 1..Len(command) :
          /\ command[i] = "P"
          /\ i + Len(d) <= Len(command)
          /\ SubSeq(command, i + 1, i + Len(d)) = d
          /\ (i + Len(d) = Len(command) \/ ~IsDigit(command[i + Len(d) + 1]))}

\* C12: expand returns null iff the command does not match the M98
\* grammar; it raises the missing-identifier error iff the command matches
\* without a numeric parameter; it raises the not-found error, with the
\* requested identifier, iff the command matches with an identifier for
\* which get returns null (identifiers out of range included); otherwise
\* it returns the macro and its command list.
C12_ExpandOutcomes ==
  op.name = "expand" =>
    LET command == op.id
        ids == NumericParameters(command)
        found == \E id \in ids : getMacro(fs, id).ok
    IN /\ ret.kind = "null" <=> ~MatchesGrammar(command)
       /\ (ret.kind = "throw" /\ ret.code = "M98_MISSING_ID") <=>
            (MatchesGrammar(command) /\ ids = {})
       /\ (ret.kind = "throw" /\ ret.code = "M98_NOT_FOUND") <=>
            (MatchesGrammar(command) /\ ids # {} /\ ~found)
       /\ (ret.kind = "throw" /\ ret.code = "M98_NOT_FOUND") => ret.id \in ids
       /\ ret.kind = "ok" <=> (MatchesGrammar(command) /\ found)
       /\ ret.kind = "ok" =>
            /\ \E id \in ids : ret.macro = getMacro(fs, id).macro
            /\ ret.commands = ExpandCommands(ret.macro.commands)
       /\ \A id \in ids : ParseInt(id).v \notin IdRange => ret.kind = "throw"

\* every outcome happened: this one is the not-found error for an
\* identifier above the range
C12_Witness ==
  /\ op.name = "expand"
  /\ ret.kind = "throw"
  /\ ret.code = "M98_NOT_FOUND"
  /\ ParseInt(ret.id).v = ID_MAX + 1

\* the positions of the line feeds of a text, with both of its ends
Breaks(text) == {0, Len(text) + 1} \cup {i \in 1..Len(text) : text[i] = "\n"}

\* the lines of a text, as the pairs of neighbouring breaks
LineSpans(text) ==
  {span \in Breaks(text) \X Breaks(text) :
     /\ span[1] < span[2]
     /\ ~\E b \in Breaks(text) : span[1] < b /\ b < span[2]}

\* the line of a span without the white space at its ends; <<>> when the
\* line holds nothing else
Stripped(text, span) ==
  LET inked == {i \in (span[1] + 1)..(span[2] - 1) : ~IsSpace(text[i])}
  IN IF inked = {} THEN <<>>
     ELSE SubSeq(text, CHOOSE i \in inked : \A j \in inked : i <= j,
                       CHOOSE i \in inked : \A j \in inked : i >= j)

\* the lines that hold more than white space
KeptSpans(text) == {span \in LineSpans(text) : Stripped(text, span) # <<>>}

\* C13: the command list expand returns is the sequence of the lines of the
\* stored text, each trimmed, without the empty and the white-space-only
\* lines, in their order; no element is empty or starts or ends with
\* white space.
C13_ExpandSplitsLines ==
  (op.name = "expand" /\ ret.kind = "ok" /\ IsString(ret.macro.commands)) =>
    LET text == ret.macro.commands
        kept == KeptSpans(text)
    IN /\ Len(ret.commands) = Cardinality(kept)
       /\ \A span \in kept :
            ret.commands[Cardinality({other \in kept : other[1] <= span[1]})]
              = Stripped(text, span)
       /\ \A k \in 1..Len(ret.commands) :
            /\ ret.commands[k] # <<>>
            /\ ~IsSpace(ret.commands[k][1])
            /\ ~IsSpace(ret.commands[k][Len(ret.commands[k])])

\* a text of the longest length that starts with white space and holds
\* three lines or more, two of them commands
C13_Witness ==
  /\ op.name = "expand"
  /\ ret.kind = "ok"
  /\ IsString(ret.macro.commands)
  /\ Len(ret.macro.commands) = MaxText
  /\ Len(ret.commands) = 2
  /\ Cardinality(LineSpans(ret.macro.commands)) >= 3
  /\ IsSpace(ret.macro.commands[1])

(***************************************************************************)
(* Properties of the identifier-bearing routes, checked under RouteSpec    *)
(***************************************************************************)
\* the identifier does not parse, or is outside the range
BadIdentifier(rawId) ==
  LET numeric == ParseInt(JsString(rawId))
  IN numeric.nan \/ numeric.v \notin IdRange

SyncRoutes == {"handleGet", "handleUpdate", "handleDelete"}

\* a get, update or delete request with a bad identifier got a 400, no
\* Storage function was called and the disk is as before
SyncRoutesRejectBadId ==
  (op.name \in SyncRoutes /\ BadIdentifier(op.id)) =>
    /\ ret.status = 400
    /\ ~ret.storage
    /\ fs = pre

\* C15 as stated: on get, update, delete and execute, a request whose
\* identifier does not parse or is outside the range is answered with a
\* client error (4xx), Storage neither read nor changed, whether the
\* controller is connected or not.
C15_BadIdIsClientError ==
  /\ SyncRoutesRejectBadId
  /\ \A r \in Requests :
       (exec[r].pc # "idle" /\ BadIdentifier(exec[r].rawId)) =>
         /\ exec[r].pc = "done"
         /\ Status(r) \in 400..499
         /\ ~exec[r].storageRead

\* C15 amended: as C15, except that execute on a controller that is not
\* connected answers 503 before it looks at the identifier; Storage is
\* neither read nor changed in that case either.
C15_BadIdRejectedBeforeStorage ==
  /\ SyncRoutesRejectBadId
  /\ \A r \in Requests :
       (exec[r].pc # "idle" /\ BadIdentifier(exec[r].rawId)) =>
         /\ exec[r].pc = "done"
         /\ Status(r) = IF exec[r].connectedAtStart THEN 400 ELSE 503
         /\ ~exec[r].storageRead

\* a delete with an identifier below the range was refused with records on
\* disk, after an execute with a bad identifier was answered 400
C15_Witness ==
  /\ op.name = "handleDelete"
  /\ ParseInt(op.id).v = ID_MIN - 1
  /\ ret.status = 400
  /\ DOMAIN fs.files = {IdStr(i) : i \in IdRange}
  /\ exec["r1"].pc = "done"
  /\ BadIdentifier(exec["r1"].rawId)
  /\ Status("r1") = 400

====
